---------------------------- MODULE Spec2Model ----------------------------
(***************************************************************************)
(* Film Roulette (roulette.py): the page cache, the link extraction, the   *)
(* fuzzy resolver and the draw loop of main.                               *)
(*                                                                         *)
(* Text is modelled as a sequence of character codes, so that lower(),     *)
(* strip(), slicing, substring tests, the regular expressions and the      *)
(* difflib ratio are computed as the Python code computes them.            *)
(***************************************************************************)
EXTENDS Integers, Sequences, FiniteSets, TLC

(***************************************************************************)
(* Text: helpers standing for the Python str methods used by the code      *)
(***************************************************************************)
\* F(v) with v evaluated once, whatever the number of its uses in F
With(v, F(_)) == CHOOSE y \in {F(x) : x \in {v}} : TRUE

\* the value None (not a text: no character has a negative code)
None == <<-1>>

\* truthiness of an optional text: None and "" are false
Truthy(s) == s # None /\ s # <<>>

Max(S) == With(S, LAMBDA T : CHOOSE x \in T : \A y \in T : y <= x)
Min(S) == With(S, LAMBDA T : CHOOSE x \in T : \A y \in T : x <= y)

\* the k-th smallest element of a set of numbers
Kth(S, k) == With(S, LAMBDA T : CHOOSE x \in T : Cardinality({y \in T : y < x}) = k - 1)

\* str.lower() on ASCII letters
Lower(text) ==
    With(text, LAMBDA s : [i \in 1..Len(s) |-> IF s[i] \in 65..90 THEN s[i] + 32 ELSE s[i]])

\* characters removed by str.strip() and separating str.split()
IsSpace(ch) == ch \in (9..13) \cup (28..32)

\* \w of the re module on ASCII
IsWord(ch) == ch \in (48..57) \cup (65..90) \cup (97..122) \cup {95}

\* str.startswith
StartsWith(s, p) == Len(p) <= Len(s) /\ SubSeq(s, 1, Len(p)) = p

\* s[k:] for a 0-based k
From(s, k) == SubSeq(s, k + 1, Len(s))

\* sub in s
Contains(text, part) ==
    With(<<text, part>>, LAMBDA a :
        \E i \in 0..(Len(a[1]) - Len(a[2])) : SubSeq(a[1], i + 1, i + Len(a[2])) = a[2])

\* str.strip()
Strip(text) ==
    With(text, LAMBDA s :
        With({i \in 1..Len(s) : ~IsSpace(s[i])}, LAMBDA keep :
            IF keep = {} THEN <<>> ELSE SubSeq(s, Min(keep), Max(keep))))

\* str.replace(old, new) from position i on: non-overlapping occurrences,
\* left to right
RECURSIVE ReplaceFrom(_, _, _, _)
ReplaceFrom(s, i, old, new) ==
    IF i > Len(s) THEN <<>>
    ELSE IF i + Len(old) - 1 <= Len(s) /\ SubSeq(s, i, i + Len(old) - 1) = old
         THEN new \o ReplaceFrom(s, i + Len(old), old, new)
         ELSE <<s[i]>> \o ReplaceFrom(s, i + 1, old, new)

\* str.replace(old, new), for a non-empty old
Replace(text, old, new) == With(text, LAMBDA s : ReplaceFrom(s, 1, old, new))

\* str.split(): the maximal runs of non-space characters
Split(text) ==
    With(text, LAMBDA s :
        With(<<{i \in 1..Len(s) : ~IsSpace(s[i]) /\ (i = 1 \/ IsSpace(s[i - 1]))},
               {i \in 1..Len(s) : ~IsSpace(s[i]) /\ (i = Len(s) \/ IsSpace(s[i + 1]))}>>,
             LAMBDA w : [k \in 1..Cardinality(w[1]) |-> SubSeq(s, Kth(w[1], k), Kth(w[2], k))]))

RECURSIVE JoinFrom(_, _, _)
JoinFrom(sep, words, i) ==
    IF i > Len(words) THEN <<>>
    ELSE IF i = Len(words) THEN words[i]
    ELSE words[i] \o sep \o JoinFrom(sep, words, i + 1)

\* sep.join(words)
Join(sep, list) == With(list, LAMBDA words : JoinFrom(sep, words, 1))

\* order of str values (by code point), as used by sort and by tuple comparison
StrLess(s, t) ==
    With({i \in 1..Len(s) : i <= Len(t) /\ s[i] # t[i]}, LAMBDA differ :
        IF differ = {} THEN Len(s) < Len(t) ELSE s[Min(differ)] < t[Min(differ)])

\* the elements of a sequence
Range(q) == {q[i] : i \in 1..Len(q)}

\* the subsequence of q at the positions of the set keep
AtPositions(q, keep) == [k \in 1..Cardinality(keep) |-> q[Kth(keep, k)]]

\* list(dict.fromkeys(list)): first occurrences, order kept
Unique(list) ==
    With(list, LAMBDA q :
        With({i \in 1..Len(q) : \A j \in 1..(i - 1) : q[j] # q[i]}, LAMBDA first :
            AtPositions(q, first)))

(***************************************************************************)
(* Literals of the program                                                 *)
(***************************************************************************)
WIKI == <<104, 116, 116, 112, 115, 58, 47, 47, 101, 110, 46, 119, 105, 107, 105, 112, 101, 100, 105, 97, 46, 111, 114, 103>>  \* "https://en.wikipedia.org"
COUNTRY_INDEX == <<104, 116, 116, 112, 115, 58, 47, 47, 101, 110, 46, 119, 105, 107, 105, 112, 101, 100, 105, 97, 46, 111, 114, 103, 47, 119, 105, 107, 105, 47, 67, 97, 116, 101, 103, 111, 114, 121, 58, 70, 105, 108, 109, 115, 95, 98, 121, 95, 99, 111, 117, 110, 116, 114, 121, 95, 97, 110, 100, 95, 103, 101, 110, 114, 101>>  \* "https://en.wikipedia.org/wiki/Category:Films_by_country_and_genre"
s_http == <<104, 116, 116, 112>>  \* "http"
s_films_by_genre == <<32, 102, 105, 108, 109, 115, 32, 98, 121, 32, 103, 101, 110, 114, 101>>  \* " films by genre"
s_films == <<102, 105, 108, 109, 115>>  \* "films"
s_film == <<102, 105, 108, 109>>  \* "film"
s_sp_films == <<32, 102, 105, 108, 109, 115>>  \* " films"
s_wiki_category == <<47, 119, 105, 107, 105, 47, 67, 97, 116, 101, 103, 111, 114, 121, 58>>  \* "/wiki/Category:"
s_time_travel == <<116, 105, 109, 101, 32, 116, 114, 97, 118, 101, 108>>  \* "time travel"
s_dystopian == <<100, 121, 115, 116, 111, 112, 105, 97, 110>>  \* "dystopian"
s_space_opera == <<115, 112, 97, 99, 101, 32, 111, 112, 101, 114, 97>>  \* "space opera"
s_cyberpunk == <<99, 121, 98, 101, 114, 112, 117, 110, 107>>  \* "cyberpunk"
s_alien_invasion == <<97, 108, 105, 101, 110, 32, 105, 110, 118, 97, 115, 105, 111, 110>>  \* "alien invasion"

\* CACHE_EXPIRATION, in seconds
CACHE_EXPIRATION == 7 * 24 * 3600


(***************************************************************************)
(* Pure functions of roulette.py                                           *)
(***************************************************************************)
\* clean_url: the second definition (line 64) is the one in force at run time
clean_url(url) == IF StartsWith(url, s_http) THEN url ELSE WIKI \o url

\* get_cache_filename: cache/<category>/<sha256(url)>.html; the digest is
\* taken as injective, so the file is identified by (url, category)
get_cache_filename(url, category) == <<url, category>>

\* re.sub(r"\bfilms\b", "", s, flags=re.IGNORECASE) from position i on
RECURSIVE RemoveFilmsWord(_, _)
RemoveFilmsWord(s, i) ==
    IF i > Len(s) THEN <<>>
    ELSE IF /\ i + 4 <= Len(s)
            /\ Lower(SubSeq(s, i, i + 4)) = s_films
            /\ (i = 1 \/ ~IsWord(s[i - 1]))
            /\ (i + 5 > Len(s) \/ ~IsWord(s[i + 5]))
         THEN RemoveFilmsWord(s, i + 5)
         ELSE <<s[i]>> \o RemoveFilmsWord(s, i + 1)

\* a simplify_label that forgets to strip the country prefix
simplify_label_keep_country(label, country) ==
    With(Strip(label), LAMBDA l1 : Strip(RemoveFilmsWord(l1, 1)))

simplify_label(label, country) ==
    With(Strip(label), LAMBDA l1 :
        With(IF StartsWith(Lower(l1), Lower(country))
             THEN Strip(From(l1, Len(country)))
             ELSE l1,
             LAMBDA l2 : Strip(RemoveFilmsWord(l2, 1))))

\* length of the common run of a from i and b from j (1-based), within the windows
RECURSIVE RunLen(_, _, _, _, _, _)
RunLen(a, b, i, j, ahi, bhi) ==
    IF i <= ahi /\ j <= bhi /\ a[i] = b[j] THEN 1 + RunLen(a, b, i + 1, j + 1, ahi, bhi) ELSE 0

\* SequenceMatcher.find_longest_match (no junk): the longest block, of those
\* the one starting earliest in a, of those the one starting earliest in b
find_longest_match(a, b, alo, ahi, blo, bhi) ==
    With([p \in (alo..ahi) \X (blo..bhi) |-> RunLen(a, b, p[1], p[2], ahi, bhi)], LAMBDA runs :
        With(IF DOMAIN runs = {} THEN 0 ELSE Max({runs[p] : p \in DOMAIN runs}), LAMBDA k :
            IF k = 0 THEN <<alo, blo, 0>>
            ELSE With(Min({p[1] : p \in {q \in DOMAIN runs : runs[q] = k}}), LAMBDA i :
                     <<i, Min({p[2] : p \in {q \in DOMAIN runs : runs[q] = k /\ q[1] = i}}), k>>)))

\* sum of the sizes of SequenceMatcher.get_matching_blocks
RECURSIVE matching_size(_, _, _, _, _, _)
matching_size(a, b, alo, ahi, blo, bhi) ==
    IF alo > ahi \/ blo > bhi THEN 0
    ELSE With(find_longest_match(a, b, alo, ahi, blo, bhi), LAMBDA m :
            IF m[3] = 0 THEN 0
            ELSE m[3] + matching_size(a, b, alo, m[1] - 1, blo, m[2] - 1)
                      + matching_size(a, b, m[1] + m[3], ahi, m[2] + m[3], bhi))

\* SequenceMatcher(a=x, b=word).ratio() = 2.0 * M / T, as the fraction <<2M, T>>
\* (1.0 when both are empty)
ratio(x, word) ==
    IF Len(x) + Len(word) = 0 THEN <<1, 1>>
    ELSE <<2 * matching_size(x, word, 1, Len(x), 1, Len(word)), Len(x) + Len(word)>>

\* (score1, x1) < (score2, x2) as Python compares the tuples
ScoredLess(r1, x1, r2, x2) ==
    \/ r1[1] * r2[2] < r2[1] * r1[2]
    \/ r1[1] * r2[2] = r2[1] * r1[2] /\ StrLess(x1, x2)

\* difflib.get_close_matches(word, possibilities, n=1, cutoff=0.5): the list
\* holds at most the best candidate with ratio >= 0.5 (the quick_ratio
\* filters are upper bounds of ratio and leave the result unchanged)
get_close_matches(word, possibilities) ==
    With([i \in 1..Len(possibilities) |-> ratio(possibilities[i], word)], LAMBDA score :
        With({i \in DOMAIN score : 2 * score[i][1] >= score[i][2]}, LAMBDA close :
            IF close = {} THEN <<>>
            ELSE <<possibilities[CHOOSE i \in close : \A k \in close :
                      ~ScoredLess(score[i], possibilities[i], score[k], possibilities[k])]>>))

\* a suggest_closest whose substring test distinguishes upper and lower case
suggest_closest_cased(match_to, list) ==
    With(<<match_to, list>>, LAMBDA a :
        With({i \in 1..Len(a[2]) : Contains(a[2][i], a[1])}, LAMBDA hits :
            IF hits # {} THEN a[2][Min(hits)]
            ELSE With(get_close_matches(match_to, a[2]), LAMBDA matches :
                     IF matches # <<>> THEN matches[1] ELSE None)))

suggest_closest(match_to, list) ==
    With(<<Lower(match_to), list>>, LAMBDA a :
        With({i \in 1..Len(a[2]) : Contains(Lower(a[2][i]), a[1])}, LAMBDA hits :
            IF hits # {} THEN a[2][Min(hits)]
            ELSE With(get_close_matches(match_to, a[2]), LAMBDA matches :
                     IF matches # <<>> THEN matches[1] ELSE None)))

common_subgenres == <<s_time_travel, s_dystopian, s_space_opera, s_cyberpunk, s_alien_invasion>>

\* lines 160-162: the option built from keyword k and subgenre token sub
subgenre_option(k, sub) ==
    With(Replace(k \o <<32>> \o sub \o s_sp_films, <<32, 32>>, <<32>>), LAMBDA cat :
        [subgenre |-> cat, url |-> clean_url(s_wiki_category \o Join(<<95>>, Split(cat)))])

\* search_global_subgenre_links: for k in keywords: for sub in common_subgenres
search_global_subgenre_links(country, genre) ==
    With(<<Strip(country \o <<32>> \o genre), country, genre>>, LAMBDA keywords :
        [i \in 1..(3 * Len(common_subgenres)) |->
            subgenre_option(keywords[((i - 1) \div Len(common_subgenres)) + 1],
                            common_subgenres[((i - 1) % Len(common_subgenres)) + 1])])

(***************************************************************************)
(* Pages.  The parser is an outside collaborator: a parsed page is         *)
(*   subcat  - the page has a div with id mw-subcategories                 *)
(*   anchors - every <a href> of the page in document order: its stripped  *)
(*             text, its href and whether it lies in the subcategories div *)
(*   pages   - the page has a div with id mw-pages                         *)
(*   items   - the stripped text of every <li> of the mw-pages div         *)
(***************************************************************************)
A(text, href, insub) == [text |-> text, href |-> href, sub |-> insub]

Page(subcat, anchors, pages, items) ==
    [subcat |-> subcat, anchors |-> anchors, pages |-> pages, items |-> items]

\* re.match(r"(.+?) films by genre", text, re.IGNORECASE): the lengths k of a
\* group(1) that lets the pattern match
CountryMatches(text) ==
    {k \in 1..(Len(text) - Len(s_films_by_genre)) :
        /\ Lower(SubSeq(text, k + 1, k + Len(s_films_by_genre))) = s_films_by_genre
        /\ \A i \in 1..k : text[i] # 10}

\* fetch_live_country_links, lines 74-89: the links of a parsed country page
country_links_of(page) ==
    With(SelectSeq(page.anchors, LAMBDA a : CountryMatches(a.text) # {}), LAMBDA hits :
        [i \in 1..Len(hits) |->
            [country |-> Strip(SubSeq(hits[i].text, 1, Min(CountryMatches(hits[i].text)))),
             genre_page_url |-> WIKI \o hits[i].href]])

\* get_genre_links_from_live_page, lines 94-116: the links of a parsed genre index
genre_links_of(page) ==
    With(IF page.subcat
         THEN SelectSeq(page.anchors, LAMBDA a : a.sub)
         ELSE SelectSeq(page.anchors, LAMBDA a : Contains(Lower(a.text), s_films)),
         LAMBDA hits :
            [i \in 1..Len(hits) |-> [genre |-> hits[i].text, url |-> WIKI \o hits[i].href]])

\* get_film_titles_from_live_page, lines 121-127
film_titles_of(page) == IF page.pages THEN Unique(page.items) ELSE <<>>

\* the loops of lines 174-180 and 182-188 over the anchors they visit, in
\* that order: an anchor adds a link unless its label is in seen_subgenres,
\* that is, unless an earlier anchor had the same label
AddUnseen(anchors) ==
    With({i \in 1..Len(anchors) : \A j \in 1..(i - 1) : anchors[j].text # anchors[i].text},
         LAMBDA new :
            With(AtPositions(anchors, new), LAMBDA kept :
                [i \in 1..Len(kept) |->
                    [url |-> WIKI \o kept[i].href, subgenre |-> kept[i].text]]))

\* get_final_film_titles, lines 169-188: the subgenre links of a parsed genre page
subgenre_links_of(page) ==
    AddUnseen((IF page.subcat THEN SelectSeq(page.anchors, LAMBDA a : a.sub) ELSE <<>>)
              \o SelectSeq(page.anchors, LAMBDA a : Contains(Lower(a.text), s_film)))

(***************************************************************************)
(* The web the runs are checked against: for every URL the successive      *)
(* versions of its page (a URL that is not listed answers 404).            *)
(***************************************************************************)
q_American == <<65, 109, 101, 114, 105, 99, 97, 110>>  \* "American"
q_science_fiction == <<115, 99, 105, 101, 110, 99, 101, 32, 102, 105, 99, 116, 105, 111, 110>>  \* "science fiction"
t_American_index == <<65, 109, 101, 114, 105, 99, 97, 110, 32, 102, 105, 108, 109, 115, 32, 98, 121, 32, 103, 101, 110, 114, 101>>  \* "American films by genre"
h_American_index == <<47, 119, 105, 107, 105, 47, 67, 97, 116, 101, 103, 111, 114, 121, 58, 65, 109, 101, 114, 105, 99, 97, 110, 95, 102, 105, 108, 109, 115, 95, 98, 121, 95, 103, 101, 110, 114, 101>>  \* "/wiki/Category:American_films_by_genre"
t_American_sf == <<65, 109, 101, 114, 105, 99, 97, 110, 32, 115, 99, 105, 101, 110, 99, 101, 32, 102, 105, 99, 116, 105, 111, 110, 32, 102, 105, 108, 109, 115>>  \* "American science fiction films"
h_American_sf == <<47, 119, 105, 107, 105, 47, 67, 97, 116, 101, 103, 111, 114, 121, 58, 65, 109, 101, 114, 105, 99, 97, 110, 95, 115, 99, 105, 101, 110, 99, 101, 95, 102, 105, 99, 116, 105, 111, 110, 95, 102, 105, 108, 109, 115>>  \* "/wiki/Category:American_science_fiction_films"
h_time_travel == <<47, 119, 105, 107, 105, 47, 67, 97, 116, 101, 103, 111, 114, 121, 58, 116, 105, 109, 101, 95, 116, 114, 97, 118, 101, 108, 95, 102, 105, 108, 109, 115>>  \* "/wiki/Category:time_travel_films"
h_American_sf_time_travel == <<47, 119, 105, 107, 105, 47, 67, 97, 116, 101, 103, 111, 114, 121, 58, 65, 109, 101, 114, 105, 99, 97, 110, 95, 115, 99, 105, 101, 110, 99, 101, 95, 102, 105, 99, 116, 105, 111, 110, 95, 116, 105, 109, 101, 95, 116, 114, 97, 118, 101, 108, 95, 102, 105, 108, 109, 115>>  \* "/wiki/Category:American_science_fiction_time_travel_films"
f_A == <<70, 105, 108, 109, 32, 65>>  \* "Film A"
f_B == <<70, 105, 108, 109, 32, 66>>  \* "Film B"
f_C == <<70, 105, 108, 109, 32, 67>>  \* "Film C"
f_T == <<70, 105, 108, 109, 32, 84>>  \* "Film T"
f_X == <<70, 105, 108, 109, 32, 88>>  \* "Film X"
t_Help == <<72, 101, 108, 112>>  \* "Help"
h_Help == <<47, 104, 101, 108, 112>>  \* "/help"
t_UK_index == <<85, 75, 32, 102, 105, 108, 109, 115, 32, 98, 121, 32, 103, 101, 110, 114, 101>>  \* "UK films by genre"
h_UK == <<47, 85, 75>>  \* "/UK"
t_US_index == <<85, 83, 32, 102, 105, 108, 109, 115, 32, 98, 121, 32, 103, 101, 110, 114, 101>>  \* "US films by genre"
h_US == <<47, 85, 83>>  \* "/US"
t_UK_war == <<85, 75, 32, 119, 97, 114, 32, 102, 105, 108, 109, 115>>  \* "UK war films"
t_US_war == <<85, 83, 32, 119, 97, 114, 32, 102, 105, 108, 109, 115>>  \* "US war films"
h_UK_war == <<47, 85, 75, 47, 119, 97, 114>>  \* "/UK/war"
t_UK_cold == <<85, 75, 32, 99, 111, 108, 100, 32, 119, 97, 114, 32, 102, 105, 108, 109, 115>>  \* "UK cold war films"
h_UK_cold == <<47, 85, 75, 47, 99, 111, 108, 100>>  \* "/UK/cold"
t_UK_cold_spy == <<85, 75, 32, 99, 111, 108, 100, 32, 119, 97, 114, 32, 115, 112, 121, 32, 102, 105, 108, 109, 115>>  \* "UK cold war spy films"
t_UK_films == <<85, 75, 32, 102, 105, 108, 109, 115>>  \* "UK films"
h_UK_cold_spy == <<47, 85, 75, 47, 99, 111, 108, 100, 47, 115, 112, 121>>  \* "/UK/cold/spy"
h_dystopian == <<47, 119, 105, 107, 105, 47, 67, 97, 116, 101, 103, 111, 114, 121, 58, 100, 121, 115, 116, 111, 112, 105, 97, 110, 95, 102, 105, 108, 109, 115>>  \* "/wiki/Category:dystopian_films"
q_uk == <<117, 107>>  \* "uk"
q_UX == <<85, 88>>  \* "UX"
q_ZZ == <<90, 90>>  \* "ZZ"
q_war == <<119, 97, 114>>  \* "war"
q_spy == <<115, 112, 121>>  \* "spy"
q_cold == <<99, 111, 108, 100>>  \* "cold"
q_noir == <<110, 111, 105, 114>>  \* "noir"
q_zz == <<122, 122>>  \* "zz"

NoAnchors == <<>>
FilmPage(items) == Page(FALSE, NoAnchors, TRUE, items)

\* the scenario of the specification: one country, one genre, two films
ScenarioWeb ==
    (COUNTRY_INDEX :> <<Page(TRUE, <<A(t_American_index, h_American_index, TRUE)>>, FALSE, <<>>)>>)
 @@ (WIKI \o h_American_index :> <<Page(TRUE, <<A(t_American_sf, h_American_sf, TRUE)>>, FALSE, <<>>)>>)
 @@ (WIKI \o h_American_sf :> <<FilmPage(<<f_A, f_B>>)>>)
 @@ (WIKI \o h_time_travel :> <<FilmPage(<<>>), FilmPage(<<f_T>>)>>)
 @@ (WIKI \o h_American_sf_time_travel :> <<FilmPage(<<f_X>>)>>)

\* two countries; an empty genre index; genre pages with and without
\* subgenre links (one of them outside the subcategories), with shared,
\* repeated and missing films
SmallWeb ==
    (COUNTRY_INDEX :>
        <<Page(TRUE, <<A(t_Help, h_Help, FALSE), A(t_UK_index, h_UK, TRUE),
                       A(t_US_index, h_US, TRUE)>>, FALSE, <<>>),
          Page(TRUE, <<A(t_UK_index, h_UK, TRUE)>>, FALSE, <<>>)>>)
 @@ (WIKI \o h_UK :>
        <<Page(TRUE, <<A(t_UK_war, h_UK_war, TRUE), A(t_UK_cold, h_UK_cold, TRUE),
                       A(t_Help, h_Help, FALSE)>>, FALSE, <<>>)>>)
 @@ (WIKI \o h_US :> <<Page(TRUE, NoAnchors, FALSE, <<>>)>>)
 @@ (WIKI \o h_UK_war :> <<FilmPage(<<f_A, f_B, f_A>>)>>)
 @@ (WIKI \o h_UK_cold :>
        <<Page(TRUE, <<A(t_UK_cold_spy, h_UK_cold_spy, TRUE), A(t_UK_films, h_UK_war, FALSE)>>,
               TRUE, <<f_A>>),
          Page(TRUE, <<A(t_UK_cold_spy, h_UK_cold_spy, TRUE), A(t_UK_films, h_UK_war, FALSE)>>,
               TRUE, <<>>)>>)
 @@ (WIKI \o h_UK_cold_spy :> <<FilmPage(<<>>), FilmPage(<<f_C>>)>>)
 @@ (WIKI \o h_dystopian :> <<FilmPage(<<>>), FilmPage(<<f_C>>)>>)

\* one country, then two; one genre each (listed twice for the second
\* country), both leading to the same film page
AgingWeb ==
    (COUNTRY_INDEX :>
        <<Page(TRUE, <<A(t_UK_index, h_UK, TRUE)>>, FALSE, <<>>),
          Page(TRUE, <<A(t_UK_index, h_UK, TRUE), A(t_US_index, h_US, TRUE)>>, FALSE, <<>>)>>)
 @@ (WIKI \o h_UK :> <<Page(TRUE, <<A(t_UK_war, h_UK_war, TRUE)>>, FALSE, <<>>)>>)
 @@ (WIKI \o h_US :>
        <<Page(TRUE, <<A(t_US_war, h_UK_war, TRUE), A(t_US_war, h_UK_war, TRUE)>>, FALSE, <<>>)>>)
 @@ (WIKI \o h_UK_war :> <<FilmPage(<<f_A>>), FilmPage(<<f_A, f_B>>)>>)

Scenario == "scenario"
Small == "small"
Aging == "aging"
Worlds == {Scenario, Small, Aging}
Web(w) == IF w = Scenario THEN ScenarioWeb ELSE IF w = Small THEN SmallWeb ELSE AgingWeb

\* bounds of the exploration
MaxN == 2
MaxTicks == 2
MaxRev == 1

\* the clock advances by half the expiration window
TickStep == CACHE_EXPIRATION \div 2

\* how often the clock advances during a run: the runs against the scenario
\* and the small web are shorter than half an expiration window
Ticks(w) == IF w = Aging THEN MaxTicks ELSE 0

\* the command lines tried: -n, -c, -g, -s (an absent option is "", which
\* the code treats like an option that was never given)
Args(n, c, g, s) == [n |-> n, c |-> c, g |-> g, s |-> s]

CommandLines(w) ==
    IF w = Scenario
    THEN {Args(n, <<>>, <<>>, <<>>) : n \in 0..MaxN}
         \cup {Args(1, q_American, q_science_fiction, s_time_travel)}
    ELSE IF w = Aging
    THEN {Args(n, <<>>, <<>>, <<>>) : n \in 1..MaxN}
    ELSE {Args(n, <<>>, <<>>, <<>>) : n \in 1..MaxN}
         \cup {Args(MaxN, q_uk, q_war, <<>>), Args(MaxN, q_uk, q_cold, q_spy)}
         \cup {Args(1, f[1], f[2], f[3]) :
                 f \in {<<q_UX, <<>>, <<>>>>, <<q_ZZ, <<>>, <<>>>>, <<q_uk, q_noir, <<>>>>,
                        <<q_uk, q_war, s_dystopian>>, <<q_uk, q_war, q_zz>>}}

(***************************************************************************)
(* State                                                                   *)
(***************************************************************************)
VARIABLES
    world,            \* the web the run talks to
    args,             \* the parsed command line
    now,              \* time.time()
    rev,              \* how many times the web has been edited
    cache,            \* the cache directory: file name -> [content, mtime]
    call,             \* the last call of get_cached_page: what it saw and did
    pc,               \* the position of main
    exc,              \* how the process ended, or "none"
    country_links, chosen_country, chosen_genre,      \* locals of main
    genre_links,      \* local of main
    genre_choices,    \* the list random.choice took chosen_genre from
    subgenre_links, chosen,                           \* locals of get_final_film_titles
    results, attempts,                                \* locals of main
    printed,          \* the result table has been written to stdout
    suggestion,       \* the suggestion of the error message, if any
    event,            \* what the last step of main found
    accepted,         \* per accepted row, in order of acceptance: its links
    abandoned,        \* the number of draws abandoned so far
    runs,             \* the processes that share the cache: where each is in get_cached_page
    torn,             \* the files whose last writer died before it had written them
    match_to, options, answer    \* a call of suggest_closest and what it returned

vars == <<world, args, now, rev, cache, call, pc, exc, country_links, chosen_country,
          chosen_genre, genre_links, genre_choices, subgenre_links, chosen, results, attempts, printed, suggestion,
          event, accepted, abandoned, runs, torn, match_to, options, answer>>

NoLink == [url |-> None]
NoCall == [url |-> None]

(***************************************************************************)
(* Page cache                                                              *)
(***************************************************************************)
\* the response of the site to a successful GET: the current version of the page
Response(url) == LET versions == Web(world)[url] IN <<url, Min({rev + 1, Len(versions)})>>

\* BeautifulSoup(content, "html.parser")
Parse(content) == Web(world)[content[1]][content[2]]

\* a freshness test that still serves a file aged exactly CACHE_EXPIRATION
Fresh_inclusive(filename) ==
    filename \in DOMAIN cache /\ now - cache[filename].mtime <= CACHE_EXPIRATION

\* lines 49-51: the file exists and is younger than CACHE_EXPIRATION
Fresh(filename) ==
    filename \in DOMAIN cache /\ now - cache[filename].mtime < CACHE_EXPIRATION

\* a get_cached_page that stamps the file it serves with the time of the read
get_cached_page_touch(url0, category) ==
    LET url == clean_url(url0)
        filename == get_cache_filename(url, category)
    IN IF Fresh(filename)
       THEN {[ok |-> TRUE, content |-> cache[filename].content, fetches |-> 0,
              cache |-> [cache EXCEPT ![filename].mtime = now]]}
       ELSE {[ok |-> FALSE, content |-> None, fetches |-> 1, cache |-> cache]}
            \cup (IF url \in DOMAIN Web(world)
                  THEN {[ok |-> TRUE, content |-> Response(url), fetches |-> 1,
                         cache |-> (filename :> [content |-> Response(url), mtime |-> now])
                                   @@ cache]}
                  ELSE {})

\* get_cached_page: the outcomes of one call.  ok = FALSE is requests.get or
\* raise_for_status raising; fetches counts the calls of requests.get
get_cached_page(url0, category) ==
    LET url == clean_url(url0)
        filename == get_cache_filename(url, category)
    IN IF Fresh(filename)
       THEN {[ok |-> TRUE, content |-> cache[filename].content, fetches |-> 0, cache |-> cache]}
       ELSE {[ok |-> FALSE, content |-> None, fetches |-> 1, cache |-> cache]}
            \cup (IF url \in DOMAIN Web(world)
                  THEN {[ok |-> TRUE, content |-> Response(url), fetches |-> 1,
                         cache |-> (filename :> [content |-> Response(url), mtime |-> now])
                                   @@ cache]}
                  ELSE {})

\* the effect of one call with outcome r on the cache, and its record
Called(url0, category, r) ==
    LET filename == get_cache_filename(clean_url(url0), category)
        existed == filename \in DOMAIN cache
    IN /\ cache' = r.cache
       /\ call' = [url |-> clean_url(url0), category |-> category, at |-> now,
                   existed |-> existed,
                   mtime |-> IF existed THEN cache[filename].mtime ELSE -1,
                   stored |-> IF existed THEN cache[filename].content ELSE None,
                   response |-> IF clean_url(url0) \in DOMAIN Web(world)
                                THEN Response(clean_url(url0)) ELSE None,
                   fetches |-> r.fetches, ok |-> r.ok, content |-> r.content]

(***************************************************************************)
(* main                                                                    *)
(***************************************************************************)
\* line 270
max_attempts == args.n * 5

\* a loop that allows one attempt more than the budget
LoopCondition_inclusive == Len(results) < args.n /\ attempts <= max_attempts

\* line 274
LoopCondition == Len(results) < args.n /\ attempts < max_attempts

\* a failure that is logged and skipped: the loop goes on
Raise_swallowed(e, what) ==
    /\ pc' = "loop"
    /\ exc' = exc
    /\ event' = what

\* the process ends with an exception or with sys.exit(1)
Raise(e, what) ==
    /\ pc' = "exit"
    /\ exc' = e
    /\ event' = what

Locals == <<country_links, chosen_country, chosen_genre, genre_links, genre_choices, subgenre_links, chosen>>
Outcome == <<results, attempts, printed, accepted, abandoned>>
Input == <<world, args>>
\* what main does not touch
Aside == <<runs, torn, match_to, options, answer>>
Clock == <<now, rev>>

\* line 272
FetchCountries ==
    /\ pc = "start"
    /\ \E r \in get_cached_page(COUNTRY_INDEX, "country") :
          /\ Called(COUNTRY_INDEX, "country", r)
          /\ IF r.ok
             THEN /\ country_links' = country_links_of(Parse(r.content))
                  /\ pc' = "loop"
                  /\ event' = "countries"
                  /\ exc' = exc
             ELSE /\ Raise("TransportError", "transport")
                  /\ UNCHANGED country_links
    /\ UNCHANGED <<Aside, Input, Clock, chosen_country, chosen_genre, genre_links, genre_choices,
                   subgenre_links, chosen, Outcome, suggestion>>

\* a country filter that falls back on the resolver's suggestion
matching_countries_fuzzy ==
    LET exact == SelectSeq(country_links, LAMBDA c : Lower(args.c) = Lower(c.country))
        names == [i \in 1..Len(country_links) |-> country_links[i].country]
        near  == suggest_closest(args.c, names)
    IN IF exact # <<>> THEN exact
       ELSE SelectSeq(country_links, LAMBDA c : c.country = near)

\* lines 277-279
matching_countries ==
    SelectSeq(country_links, LAMBDA c : Lower(args.c) = Lower(c.country))

\* lines 274-297
SelectCountry ==
    /\ pc = "loop"
    /\ LoopCondition
    /\ IF Truthy(args.c)
       THEN LET country_names == [i \in 1..Len(country_links) |-> country_links[i].country]
                matching == matching_countries
            IN IF matching # <<>>
               THEN /\ chosen_country' = matching[1]
                    /\ pc' = "genre"
                    /\ event' = "country"
                    /\ UNCHANGED <<exc, suggestion>>
               ELSE /\ suggestion' = suggest_closest(args.c, country_names)
                    /\ Raise("SystemExit", "country_not_found")
                    /\ UNCHANGED chosen_country
       ELSE IF country_links = <<>>
            THEN /\ Raise("IndexError", "no_countries")
                 /\ UNCHANGED <<chosen_country, suggestion>>
            ELSE /\ \E i \in 1..Len(country_links) : chosen_country' = country_links[i]
                 /\ pc' = "genre"
                 /\ event' = "country"
                 /\ UNCHANGED <<exc, suggestion>>
    /\ UNCHANGED <<Aside, Input, Clock, cache, call, country_links, chosen_genre, genre_links,
                   genre_choices, subgenre_links, chosen, Outcome>>

\* a genre filter that falls back on every genre when nothing matches
filtered_genres_or_all(links) ==
    LET hits == SelectSeq(links,
                    LAMBDA g : Contains(Lower(simplify_label(g.genre, chosen_country.country)),
                                        Lower(args.g)))
    IN IF hits = <<>> THEN links ELSE hits

\* a genre filter that resolves to the first matching genre only
filtered_genres_first(links) ==
    LET hits == SelectSeq(links,
                    LAMBDA g : Contains(Lower(simplify_label(g.genre, chosen_country.country)),
                                        Lower(args.g)))
    IN IF hits = <<>> THEN <<>> ELSE <<hits[1]>>

\* lines 306-311
filtered_genres(links) ==
    SelectSeq(links,
              LAMBDA g : Contains(Lower(simplify_label(g.genre, chosen_country.country)),
                                  Lower(args.g)))

\* lines 299-327
SelectGenre ==
    /\ pc = "genre"
    /\ \E r \in get_cached_page(chosen_country.genre_page_url, "genre") :
          /\ Called(chosen_country.genre_page_url, "genre", r)
          /\ IF ~r.ok
             THEN /\ Raise("TransportError", "transport")
                  /\ UNCHANGED <<chosen_genre, genre_links, genre_choices, suggestion>>
             ELSE LET links == genre_links_of(Parse(r.content))
                      genre_names == [i \in 1..Len(links) |->
                                         simplify_label(links[i].genre, chosen_country.country)]
                      choices == IF Truthy(args.g) THEN filtered_genres(links) ELSE links
                  IN /\ genre_links' = links
                     /\ genre_choices' = choices
                     /\ IF choices # <<>>
                        THEN /\ \E i \in 1..Len(choices) : chosen_genre' = choices[i]
                             /\ pc' = "film"
                             /\ event' = "genre"
                             /\ UNCHANGED <<exc, suggestion>>
                        ELSE IF Truthy(args.g)
                        THEN /\ suggestion' = suggest_closest(args.g, genre_names)
                             /\ Raise("SystemExit", "genre_not_found")
                             /\ UNCHANGED chosen_genre
                        ELSE /\ Raise("IndexError", "no_genres")
                             /\ UNCHANGED <<chosen_genre, suggestion>>
    /\ UNCHANGED <<Aside, Input, Clock, country_links, chosen_country, subgenre_links, chosen,
                   Outcome>>

\* a candidate set that forgets the films already accepted
remaining_choices_all(films) == Range(films)

\* line 339, as a set
remaining_choices(films) == Range(films) \ {results[i].Film : i \in 1..Len(results)}

\* an empty level that ends the run like an unresolved filter
Abandon_exit(why) ==
    /\ Raise("SystemExit", "subgenre_not_found")
    /\ UNCHANGED <<attempts, abandoned, results, accepted>>

\* an abandoned draw that is not counted
Abandon_uncounted(why) ==
    /\ attempts' = attempts
    /\ abandoned' = abandoned + 1
    /\ pc' = "loop"
    /\ event' = why
    /\ UNCHANGED <<exc, results, accepted>>

\* lines 332-337 and 340-343: the draw is abandoned; it counts one attempt
Abandon(why) ==
    /\ attempts' = attempts + 1
    /\ abandoned' = abandoned + 1
    /\ pc' = "loop"
    /\ event' = why
    /\ UNCHANGED <<exc, results, accepted>>

\* lines 332-356: the draw ends with the film list and the subgenre label that
\* get_final_film_titles returned
Conclude(films, subgenre) ==
    /\ subgenre_links' = <<>>
    /\ chosen' = NoLink
    /\ UNCHANGED printed
    /\ IF films = <<>>
       THEN Abandon("no_films")
       ELSE IF remaining_choices(films) = {}
       THEN Abandon("no_unique")
       ELSE /\ \E chosen_film \in remaining_choices(films) :
                /\ results' = Append(results,
                      [Country |-> chosen_country.country,
                       Genre |-> simplify_label(chosen_genre.genre, chosen_country.country),
                       Subgenre |-> simplify_label(subgenre, chosen_country.country),
                       Film |-> chosen_film])
                /\ accepted' = Append(accepted,
                      [country |-> chosen_country, genre |-> chosen_genre,
                       links |-> genre_links, choices |-> genre_choices,
                       film |-> chosen_film])
            /\ attempts' = attempts + 1
            /\ pc' = "loop"
            /\ event' = "accepted"
            /\ UNCHANGED <<exc, abandoned>>

\* the arguments country and genre of get_final_film_titles in the call of
\* lines 329-331: main passes neither, so both have the default of line 166
passed_country == <<>>
passed_genre == <<>>

\* lines 329-331 and 167-225: get_final_film_titles up to the end of the
\* subgenre filter
OpenGenrePage ==
    /\ pc = "film"
    /\ \E r \in get_cached_page(chosen_genre.url, "film") :
          /\ Called(chosen_genre.url, "film", r)
          /\ IF ~r.ok
             THEN /\ Raise("TransportError", "transport")
                  /\ UNCHANGED <<subgenre_links, chosen>>
             ELSE LET links == subgenre_links_of(Parse(r.content))
                      subgenre_names == [i \in 1..Len(links) |-> links[i].subgenre]
                      found == suggest_closest(args.s, subgenre_names)
                      guessed_links == search_global_subgenre_links(passed_country, passed_genre)
                      guessed_names == [i \in 1..Len(guessed_links) |-> guessed_links[i].subgenre]
                      guessed_suggestion == suggest_closest(args.s, guessed_names)
                      first(q, label) == q[Min({i \in 1..Len(q) : q[i].subgenre = label})]
                  IN /\ subgenre_links' = links
                     /\ IF ~Truthy(args.s)
                        THEN /\ pc' = "films"
                             /\ event' = "opened"
                             /\ UNCHANGED <<exc, chosen>>
                        ELSE IF Truthy(found)
                        THEN /\ chosen' = first(links, found)
                             /\ pc' = "sub"
                             /\ event' = "subgenre_matched"
                             /\ UNCHANGED exc
                        ELSE IF Truthy(guessed_suggestion)
                        THEN /\ chosen' = first(guessed_links, guessed_suggestion)
                             /\ pc' = "sub"
                             /\ event' = "subgenre_guessed"
                             /\ UNCHANGED exc
                        ELSE /\ Raise("SystemExit", "subgenre_not_found")
                             /\ UNCHANGED chosen
    /\ UNCHANGED <<Aside, Input, Clock, country_links, chosen_country, chosen_genre, genre_links,
                   genre_choices, Outcome, suggestion>>

\* a coin whose tails never looks at the subgenres
descends_on_heads(coin, films) == coin

\* lines 230-238: with subgenre links, a subgenre page is read on heads, and
\* on tails when the genre page lists no film
descends(coin, films) == coin \/ films = <<>>

\* lines 227-241: the unfiltered end of get_final_film_titles, then lines 332-356
ReadGenreFilms ==
    /\ pc = "films"
    /\ \E r \in get_cached_page(chosen_genre.url, "film") :
          /\ Called(chosen_genre.url, "film", r)
          /\ IF ~r.ok
             THEN /\ Raise("TransportError", "transport")
                  /\ UNCHANGED <<subgenre_links, chosen, Outcome>>
             ELSE LET films == film_titles_of(Parse(r.content))
                  IN IF subgenre_links # <<>>
                     THEN \E coin \in BOOLEAN :
                            IF descends(coin, films)
                            THEN /\ \E i \in 1..Len(subgenre_links) : chosen' = subgenre_links[i]
                                 /\ pc' = "sub"
                                 /\ event' = IF coin THEN "dive" ELSE "fallback"
                                 /\ UNCHANGED <<exc, subgenre_links, Outcome>>
                            ELSE Conclude(films, <<>>)
                     ELSE Conclude(films, <<>>)
    /\ UNCHANGED <<Aside, Input, Clock, country_links, chosen_country, chosen_genre, genre_links,
                   genre_choices, suggestion>>

\* lines 201-204, 216-219, 233-234 and 239-240: the film list of the chosen
\* subgenre page, then lines 332-356
ReadSubgenreFilms ==
    /\ pc = "sub"
    /\ \E r \in get_cached_page(chosen.url, "subgenre") :
          /\ Called(chosen.url, "subgenre", r)
          /\ IF ~r.ok
             THEN /\ Raise("TransportError", "transport")
                  /\ UNCHANGED <<subgenre_links, chosen, Outcome>>
             ELSE Conclude(film_titles_of(Parse(r.content)),
                           simplify_label(chosen.subgenre, <<>>))
    /\ UNCHANGED <<Aside, Input, Clock, country_links, chosen_country, chosen_genre, genre_links,
                   genre_choices, suggestion>>

\* the sort key of line 358, compared as Python compares tuples
RowLess(r1, r2) ==
    LET k1 == <<r1.Country, r1.Genre, r1.Subgenre, r1.Film>>
        k2 == <<r2.Country, r2.Genre, r2.Subgenre, r2.Film>>
        differ == {i \in 1..4 : k1[i] # k2[i]}
    IN differ # {} /\ StrLess(k1[Min(differ)], k2[Min(differ)])

\* list.sort (stable) as an insertion sort
RECURSIVE Sorted(_)
Sorted(rows) ==
    IF rows = <<>> THEN <<>>
    ELSE LET init == Sorted(SubSeq(rows, 1, Len(rows) - 1))
             last == rows[Len(rows)]
             k == Cardinality({i \in 1..Len(init) : ~RowLess(last, init[i])})
         IN SubSeq(init, 1, k) \o <<last>> \o SubSeq(init, k + 1, Len(init))

\* lines 358-369: the loop is over; sort and print the table
Finish ==
    /\ pc = "loop"
    /\ ~LoopCondition
    /\ results' = Sorted(results)
    /\ printed' = TRUE
    /\ pc' = "done"
    /\ event' = "printed"
    /\ UNCHANGED <<Aside, Input, Clock, cache, call, exc, Locals, attempts, suggestion, accepted,
                   abandoned>>

Running == pc \notin {"done", "exit"}

\* time passes while the process runs
Tick ==
    /\ Running
    /\ now < Ticks(world) * TickStep
    /\ now' = now + TickStep
    /\ UNCHANGED <<Aside, Input, rev, cache, call, pc, exc, Locals, Outcome, suggestion, event>>

\* the site publishes the next version of its pages
Edit ==
    /\ Running
    /\ rev < MaxRev
    /\ rev' = rev + 1
    /\ UNCHANGED <<Aside, Input, now, cache, call, pc, exc, Locals, Outcome, suggestion, event>>

\* main has not started
MainAtStart ==
    /\ call = NoCall
    /\ pc = "start"
    /\ exc = "none"
    /\ country_links = <<>>
    /\ chosen_country = NoLink
    /\ chosen_genre = NoLink
    /\ genre_links = <<>>
    /\ genre_choices = <<>>
    /\ subgenre_links = <<>>
    /\ chosen = NoLink
    /\ results = <<>>
    /\ attempts = 0
    /\ printed = FALSE
    /\ suggestion = None
    /\ event = "none"
    /\ accepted = <<>>
    /\ abandoned = 0

\* nothing but main is running
AsideIdle ==
    /\ runs = <<>>
    /\ torn = {}
    /\ match_to = None
    /\ options = <<>>
    /\ answer = None

Init ==
    /\ world \in Worlds
    /\ args \in CommandLines(world)
    /\ now = 0
    /\ rev = 0
    /\ cache = <<>>
    /\ MainAtStart
    /\ AsideIdle

Main ==
    \/ FetchCountries
    \/ SelectCountry
    \/ SelectGenre
    \/ OpenGenrePage
    \/ ReadGenreFilms
    \/ ReadSubgenreFilms
    \/ Finish

Next == Main \/ Tick \/ Edit

Spec == Init /\ [][Next]_vars

(***************************************************************************)
(* get_cached_page step by step, for processes that share the cache        *)
(* directory and that can die.  A payload is the sequence of its blocks,   *)
(* <<url, version>>; the file system writes it block by block.             *)
(***************************************************************************)
\* bound: the processes that share the cache directory
MaxRuns == 2

Procs == 1..MaxRuns

\* the page the processes ask for
SharedUrl == WIKI \o h_UK_war
SharedFile == get_cache_filename(clean_url(SharedUrl), "film")

\* a process outside get_cached_page; returned, from, torn and racing tell
\* how its last call ended
Idle == [pc |-> "idle", response |-> None, written |-> 0, returned |-> None,
         from |-> "none", torn |-> FALSE, racing |-> FALSE]

\* the zero bytes of a file where nothing was written
Hole == <<0>>

\* the file after a write of block b at offset k
WriteAt(content, k, b) ==
    [i \in 1..Max({Len(content), k + 1}) |->
        IF i = k + 1 THEN b ELSE IF i <= Len(content) THEN content[i] ELSE Hole]

\* process p has the file open for writing
Writing(p) == runs[p].pc \in {"write", "close"}

MainState == <<call, pc, exc, Locals, Outcome, suggestion, event>>
Resolver == <<match_to, options, answer>>

\* lines 46-54: the file exists and is fresh: read and return it; else go on
CheckStore(p) ==
    /\ runs[p].pc = "idle"
    /\ runs' = [runs EXCEPT ![p] =
                  IF Fresh(SharedFile)
                  THEN [Idle EXCEPT !.returned = cache[SharedFile].content,
                                    !.from = "store",
                                    !.torn = SharedFile \in torn,
                                    !.racing = \E q \in Procs \ {p} : Writing(q)]
                  ELSE [Idle EXCEPT !.pc = "fetch"]]
    /\ UNCHANGED <<Input, Clock, cache, torn, MainState, Resolver>>

\* lines 55-58: requests.get and raise_for_status, which can raise
FetchPage(p) ==
    /\ runs[p].pc = "fetch"
    /\ \/ runs' = [runs EXCEPT ![p] = [Idle EXCEPT !.from = "error"]]
       \/ runs' = [runs EXCEPT ![p] = [@ EXCEPT !.pc = "open",
                                                !.response = Response(clean_url(SharedUrl))]]
    /\ UNCHANGED <<Input, Clock, cache, torn, MainState, Resolver>>

\* line 59: open(filename, "wb") creates or truncates the file
OpenFile(p) ==
    /\ runs[p].pc = "open"
    /\ cache' = (SharedFile :> [content |-> <<>>, mtime |-> now]) @@ cache
    /\ torn' = torn \ {SharedFile}
    /\ runs' = [runs EXCEPT ![p] = [@ EXCEPT !.pc = "write", !.written = 0]]
    /\ UNCHANGED <<Input, Clock, MainState, Resolver>>

\* line 60: f.write(content), one block at the offset of this process
WriteBlock(p) ==
    /\ runs[p].pc = "write"
    /\ cache' = [cache EXCEPT ![SharedFile] =
                    [content |-> WriteAt(@.content, runs[p].written,
                                         runs[p].response[runs[p].written + 1]),
                     mtime |-> now]]
    /\ runs' = [runs EXCEPT ![p] =
                  [@ EXCEPT !.written = @ + 1,
                            !.pc = IF runs[p].written + 1 = Len(runs[p].response)
                                   THEN "close" ELSE "write"]]
    /\ UNCHANGED <<Input, Clock, torn, MainState, Resolver>>

\* lines 59-61: the with block ends and the content is returned
CloseFile(p) ==
    /\ runs[p].pc = "close"
    /\ runs' = [runs EXCEPT ![p] = [Idle EXCEPT !.returned = runs[p].response,
                                                !.from = "fetch"]]
    /\ UNCHANGED <<Input, Clock, cache, torn, MainState, Resolver>>

\* the process dies between line 59 and the end of line 60; a later process
\* takes its place
Crash(p) ==
    /\ runs[p].pc = "write"
    /\ runs' = [runs EXCEPT ![p] = Idle]
    /\ torn' = torn \cup {SharedFile}
    /\ UNCHANGED <<Input, Clock, cache, MainState, Resolver>>

StoreInit ==
    /\ world = Aging
    /\ args = Args(0, <<>>, <<>>, <<>>)
    /\ now = 0
    /\ rev = 0
    /\ cache = <<>>
    /\ MainAtStart
    /\ runs = [p \in Procs |-> Idle]
    /\ torn = {}
    /\ match_to = None
    /\ options = <<>>
    /\ answer = None

StoreNext ==
    \/ \E p \in Procs : CheckStore(p)
    \/ \E p \in Procs : FetchPage(p)
    \/ \E p \in Procs : OpenFile(p)
    \/ \E p \in Procs : WriteBlock(p)
    \/ \E p \in Procs : CloseFile(p)
    \/ \E p \in Procs : Crash(p)
    \/ Tick
    \/ Edit

StoreSpec == StoreInit /\ [][StoreNext]_vars

(***************************************************************************)
(* suggest_closest on its own, applied to every small query and list       *)
(***************************************************************************)
\* bounds: the length of a text and of the list of options
MaxWord == 3
MaxOptions == 2

\* the characters of the texts: a, A and b
Letters == {97, 65, 98}
Words == UNION {[1..k -> Letters] : k \in 0..MaxWord}

\* no call of suggest_closest has returned yet
Unasked == <<-2>>

\* lines 138-144
Ask ==
    /\ answer = Unasked
    /\ answer' = suggest_closest(match_to, options)
    /\ UNCHANGED <<Input, Clock, cache, MainState, runs, torn, match_to, options>>

ResolverInit ==
    /\ world = Scenario
    /\ args = Args(0, <<>>, <<>>, <<>>)
    /\ now = 0
    /\ rev = 0
    /\ cache = <<>>
    /\ MainAtStart
    /\ runs = <<>>
    /\ torn = {}
    /\ match_to \in Words
    /\ options \in UNION {[1..k -> Words] : k \in 0..MaxOptions}
    /\ answer = Unasked

ResolverNext == Ask

ResolverSpec == ResolverInit /\ [][ResolverNext]_vars

(***************************************************************************)
(* Properties                                                              *)
(***************************************************************************)
Drawing == pc \in {"genre", "film", "films", "sub"}

\* the positions of the country labels equal to the -c filter, ignoring case
ExactCountries ==
    {i \in 1..Len(country_links) : Lower(country_links[i].country) = Lower(args.c)}

CountryNames == [i \in 1..Len(country_links) |-> country_links[i].country]

\* the simplified label of a genre link of a country contains the -g filter
GenreMatches(link, country) ==
    Contains(Lower(simplify_label(link.genre, country.country)), Lower(args.g))

\* a measure of what main still has to do: the attempts left, then the
\* steps left in the current draw; 0 once the process has ended
Variant ==
    IF ~Running THEN 0
    ELSE (5 * args.n - attempts) * 6 + 1 +
         (CASE pc = "start" -> 5 [] pc = "loop" -> 4 [] pc = "genre" -> 3
            [] pc = "film" -> 2 [] pc = "films" -> 1 [] pc = "sub" -> 0)

\* C1: the draw loop makes at most 5*n attempts and the run terminates: every
\* step of main lowers a measure that is never negative.  A run that has
\* used its budget ends normally at its next step, with the table printed;
\* when every draw was abandoned it ends with no row after exactly 5*n
\* attempts.
C1_BudgetTermination ==
    /\ [](attempts <= 5 * args.n /\ Variant >= 0)
    /\ [][pc' # pc => Variant' < Variant]_vars
    /\ [][(pc = "loop" /\ attempts = 5 * args.n /\ pc' # pc)
             => (pc' = "done" /\ exc' = "none" /\ printed')]_vars
    /\ [](pc = "done" => exc = "none" /\ printed)
    /\ []((pc = "done" /\ abandoned = attempts) => (results = <<>> /\ attempts = 5 * args.n))

\* a run of n >= 1 in which every one of the 5*n draws was abandoned has ended
C1_Witness ==
    /\ pc = "done" /\ exc = "none"
    /\ args.n >= 1 /\ abandoned = 5 * args.n /\ results = <<>>

\* C2: no two rows of the result list have the same Film.
C2_DedupInvariant ==
    \A i, j \in 1..Len(results) : i # j => results[i].Film # results[j].Film

\* the second row was drawn from a page that also lists the film of the first
C2_Witness ==
    /\ Len(accepted) = 2
    /\ accepted[1].film = f_A
    /\ accepted[2].genre.url = WIKI \o h_UK_war
    /\ accepted[2].film = f_B

\* C3: a call of get_cached_page returns the stored payload without a fetch
\* exactly when the entry exists and is younger than 7 days; otherwise it
\* fetches exactly once, and when the fetch succeeds the response is returned
\* and overwrites the entry (a failing fetch raises and returns nothing).
C3_CacheFreshness ==
    call # NoCall =>
        LET file == <<call.url, call.category>>
            fresh == call.existed /\ call.at - call.mtime < 7 * 24 * 3600
        IN /\ (call.fetches = 0) <=> fresh
           /\ fresh => call.ok /\ call.content = call.stored
           /\ ~fresh => /\ call.fetches = 1
                        /\ call.ok => /\ call.content = call.response
                                      /\ cache[file] = [content |-> call.response,
                                                        mtime |-> call.at]

\* an entry aged exactly 7 days was refetched, and the site had changed
C3_Witness ==
    /\ call # NoCall
    /\ call.existed /\ call.at - call.mtime = 7 * 24 * 3600
    /\ call.ok /\ call.fetches = 1 /\ call.content # call.stored

\* C4: a step that finds an empty genre list, an empty film list or no unique
\* film abandons the draw: one attempt more, no row, no error, and the loop
\* goes on.
C4_EmptyLevelAbandons ==
    [][(pc' # pc /\ event' \in {"no_genres", "no_films", "no_unique"})
          => /\ attempts' = attempts + 1
             /\ results' = results
             /\ exc' = "none"
             /\ pc' = "loop"]_vars

\* the unfiltered scenario run of the specification with n = 1
C5_Case == world = Scenario /\ args = Args(1, <<>>, <<>>, <<>>)

\* C5: the unfiltered scenario run with n = 1 terminates with exactly one
\* row, American / science fiction / no subgenre / Film A or Film B: its
\* first draw is never abandoned, nothing but a transport failure ends it
\* early, every step lowers the measure, and after the draw the loop is over.
C5_ScenarioRow ==
    /\ [](C5_Case => abandoned = 0 /\ exc \in {"none", "TransportError"})
    /\ [][(C5_Case /\ pc' # pc) => Variant' < Variant]_vars
    /\ []((C5_Case /\ pc = "loop" /\ attempts > 0) => (attempts = 1 /\ ~LoopCondition))
    /\ []((C5_Case /\ (pc = "done" \/ attempts > 0)) =>
            /\ Len(results) = 1
            /\ results[1].Country = q_American
            /\ results[1].Genre = q_science_fiction
            /\ results[1].Subgenre = <<>>
            /\ results[1].Film \in {f_A, f_B})

C5_Witness == C5_Case /\ pc = "done" /\ Len(results) = 1 /\ results[1].Film = f_B

\* C6: the heuristic generator of a draw builds its candidates from the
\* draw's country and genre, so the scenario draw with the filter "time
\* travel" descends into Category:American_science_fiction_time_travel_films.
C6_HeuristicUsesDrawCountryGenre ==
    event = "subgenre_guessed" =>
        LET genre == simplify_label(chosen_genre.genre, chosen_country.country)
            built == search_global_subgenre_links(chosen_country.country, genre)
        IN /\ chosen \in Range(built)
           /\ (chosen_country.country = q_American /\ genre = q_science_fiction
                  /\ args.s = s_time_travel)
              => chosen.url = WIKI \o h_American_sf_time_travel

\* the names of the candidates the heuristic generator of the draw builds
GuessedNames ==
    LET guessed == search_global_subgenre_links(passed_country, passed_genre)
    IN [i \in 1..Len(guessed) |-> guessed[i].subgenre]

PageSubgenreNames == [i \in 1..Len(subgenre_links) |-> subgenre_links[i].subgenre]

\* C7: when the subgenre filter was resolved by the heuristic generator and
\* the synthetic page is read and lists no film, the draw is abandoned and
\* counts one attempt, and the run goes on; the run ends with "subgenre not
\* found" only when the filter matches neither the labels of the page nor
\* the candidates the generator built.
C7_EmptyGuessAbandons ==
    /\ [][(/\ pc = "sub" /\ event = "subgenre_guessed" /\ pc' # pc
           /\ call'.ok /\ film_titles_of(Parse(call'.content)) = <<>>)
          => /\ attempts' = attempts + 1
             /\ abandoned' = abandoned + 1
             /\ results' = results
             /\ pc' = "loop"
             /\ exc' = "none"]_vars
    /\ [](event = "subgenre_not_found" =>
            /\ suggest_closest(args.s, PageSubgenreNames) = None
            /\ suggest_closest(args.s, GuessedNames) = None)

\* the draw that guessed Category:dystopian_films found no film there
C7_Witness ==
    /\ world = Small /\ args.s = s_dystopian
    /\ pc = "loop" /\ event = "no_films" /\ attempts = 1 /\ abandoned = 1
    /\ call.url = WIKI \o h_dystopian /\ call.ok

\* C8 as stated: without an exact match the draw takes the approximate match
\* of the resolver, and the run ends with "country not found" only when there
\* is neither an exact nor an approximate match.
C8_ApproximateCountry ==
    Truthy(args.c) =>
        LET near == get_close_matches(args.c, CountryNames)
        IN /\ event = "country_not_found" => ExactCountries = {} /\ near = <<>>
           /\ Drawing => chosen_country.country =
                            IF ExactCountries # {}
                            THEN country_links[Min(ExactCountries)].country
                            ELSE near[1]

\* C8, amended: with a country filter the draw takes the first country whose
\* label equals the filter ignoring case; without such a country the run ends
\* with "country not found", and the resolver only supplies the suggestion of
\* the message.
C8_ExactCountryOrNotFound ==
    Truthy(args.c) =>
        /\ Drawing => /\ ExactCountries # {}
                      /\ chosen_country = country_links[Min(ExactCountries)]
        /\ event = "country_not_found" =>
              /\ ExactCountries = {}
              /\ pc = "exit" /\ exc = "SystemExit"
              /\ suggestion = suggest_closest(args.c, CountryNames)
        /\ (pc = "exit" /\ exc = "SystemExit" /\ ExactCountries = {})
              => event = "country_not_found"

\* the run ended with "country not found" although a close country existed
C8_Witness ==
    /\ Truthy(args.c) /\ event = "country_not_found"
    /\ get_close_matches(args.c, CountryNames) # <<>>

\* C9: with a country filter every row's Country equals the filter ignoring
\* case; with a genre filter every chosen genre and every row's genre link
\* has a simplified label containing the filter; a country or genre filter
\* that matches nothing ends the run at that step with sys.exit(1), with no
\* row added and no table printed.
C9_FilterNeverReplaced ==
    /\ [](Truthy(args.c) =>
            \A i \in 1..Len(results) : Lower(results[i].Country) = Lower(args.c))
    /\ [](Truthy(args.g) =>
            /\ \A i \in 1..Len(accepted) : GenreMatches(accepted[i].genre, accepted[i].country)
            /\ pc \in {"film", "films", "sub"} => GenreMatches(chosen_genre, chosen_country))
    /\ [](event \in {"country_not_found", "genre_not_found"} =>
            pc = "exit" /\ exc = "SystemExit" /\ ~printed)
    /\ [][(pc = "loop" /\ pc' # pc /\ LoopCondition /\ Truthy(args.c) /\ ExactCountries = {})
            => (event' = "country_not_found" /\ results' = results)]_vars
    /\ [][(pc = "genre" /\ pc' # pc /\ call'.ok /\ Truthy(args.g)
             /\ \A i \in 1..Len(genre_links') : ~GenreMatches(genre_links'[i], chosen_country))
            => (event' = "genre_not_found" /\ results' = results)]_vars

\* two rows were accepted under a country and a genre filter
C9_Witness ==
    /\ Truthy(args.c) /\ Truthy(args.g)
    /\ Len(accepted) = 2 /\ pc = "done" /\ printed

\* C10 as stated: with a genre and a country filter all accepted rows carry
\* the same genre link.
C10_SameGenreEveryDraw ==
    (Truthy(args.g) /\ Truthy(args.c)) =>
        \A i, j \in 1..Len(accepted) : accepted[i].genre = accepted[j].genre

\* the genre links of the draw of an accepted row whose label contains the filter
MatchingGenres(row) == SelectSeq(row.links, LAMBDA l : GenreMatches(l, row.country))

\* C10, amended: with a genre filter every draw resolves the filter anew and
\* takes one of all the genre links of its country whose simplified label
\* contains the filter; the rows carry the same genre link when the draws had
\* one and the same single matching link.
C10_GenreChosenAnew ==
    Truthy(args.g) =>
        /\ \A i \in 1..Len(accepted) :
              /\ accepted[i].choices = MatchingGenres(accepted[i])
              /\ accepted[i].genre \in Range(accepted[i].choices)
        /\ \A i, j \in 1..Len(accepted) :
              (accepted[i].choices = accepted[j].choices /\ Len(accepted[i].choices) = 1)
                 => accepted[i].genre = accepted[j].genre

\* two rows of one filtered run carry different genre links
C10_Witness ==
    /\ Truthy(args.g) /\ Truthy(args.c)
    /\ Len(accepted) = 2
    /\ accepted[1].genre # accepted[2].genre
    /\ Len(accepted[1].choices) = 2

\* a payload that is a complete response of some fetch of the shared page
Complete(content) ==
    content \in {<<clean_url(SharedUrl), v>> : v \in 1..Len(Web(world)[clean_url(SharedUrl)])}

\* C11: a process that died while it wrote a fetched payload never leaves a
\* file that a later call, with no other process writing, returns from the
\* cache although it is not a complete response
C11_CrashLeavesNoCorruptEntry ==
    \A p \in Procs :
        (runs[p].from = "store" /\ runs[p].torn /\ ~runs[p].racing)
            => Complete(runs[p].returned)

\* C12: with processes that share the cache and do not die, every payload
\* returned from the cache is a complete response of some fetch of the page
C12_SharedStoreNeverCorrupt ==
    \A p \in Procs :
        (runs[p].from = "store" /\ ~runs[p].torn) => Complete(runs[p].returned)

\* the positions of main whose step calls get_cached_page
Fetching == {"start", "genre", "film", "films", "sub"}

\* C13: a call of get_cached_page whose fetch fails made one fetch and ends
\* the run there with the exception; a run that ended so has printed no
\* table, whatever it had accepted, and does nothing more
C13_TransportFailureAborts ==
    /\ [](exc = "TransportError" => (pc = "exit" /\ ~printed /\ ~call.ok /\ call.fetches = 1))
    /\ [][(pc \in Fetching /\ pc' # pc /\ ~call'.ok)
             => (pc' = "exit" /\ exc' = "TransportError" /\ call'.fetches = 1
                 /\ results' = results /\ ~printed')]_vars
    /\ [][pc = "exit" => UNCHANGED <<pc, exc, results, printed>>]_vars

\* a fetch failed after an earlier draw of the run had accepted a row
C13_Witness ==
    /\ exc = "TransportError"
    /\ pc = "exit"
    /\ Len(results) >= 1
    /\ ~printed

\* the draw ends in this step with the film list films: it is abandoned when
\* the list is empty or exhausted, else a film of the list makes the new row
Uses(films) ==
    /\ pc' = "loop"
    /\ event' \in {"accepted", "no_films", "no_unique"}
    /\ event' = "no_films" <=> films = <<>>
    /\ event' = "accepted" =>
          /\ Len(results') = Len(results) + 1
          /\ results'[Len(results')].Film \in Range(films)
    /\ event' # "accepted" => results' = results

\* the film list of an unfiltered draw: the genre page's list without
\* subgenre links; with them either the list of one of the linked pages,
\* even when it is empty, or the genre page's list when it is not empty
FilmListRule ==
    /\ [][(pc = "films" /\ pc' # pc /\ call'.ok) =>
            /\ call'.url = clean_url(chosen_genre.url)
            /\ IF subgenre_links = <<>>
               THEN Uses(film_titles_of(Parse(call'.content)))
               ELSE \/ pc' = "sub" /\ chosen' \in Range(subgenre_links) /\ results' = results
                    \/ /\ film_titles_of(Parse(call'.content)) # <<>>
                       /\ Uses(film_titles_of(Parse(call'.content)))]_vars
    /\ [][(pc = "sub" /\ pc' # pc /\ call'.ok /\ ~Truthy(args.s)) =>
            /\ call'.url = clean_url(chosen.url)
            /\ Uses(film_titles_of(Parse(call'.content)))]_vars

\* C14 as claimed: the film list rule, and a row has an empty Subgenre
\* exactly when its film came from the genre page's list
C14_SubgenreEmptyIffGenreLevel ==
    /\ FilmListRule
    /\ [][(event' = "accepted" /\ pc' # pc /\ ~Truthy(args.s)) =>
            (results'[Len(results')].Subgenre = <<>> <=> pc = "films")]_vars

\* C14 amended: the film list rule; a row whose film came from the genre
\* page's list has an empty Subgenre, and a row whose film came from a
\* subgenre page has the simplified label of the chosen link, empty or not
C14_FilmListAndSubgenreLabel ==
    /\ FilmListRule
    /\ [][(event' = "accepted" /\ pc' # pc /\ ~Truthy(args.s)) =>
            results'[Len(results')].Subgenre =
                IF pc = "films" THEN <<>>
                ELSE simplify_label(simplify_label(chosen.subgenre, <<>>),
                                    chosen_country.country)]_vars

\* tails on a genre page with subgenre links and no film: a subgenre is taken
C14_Witness ==
    /\ event = "fallback"
    /\ pc = "sub"
    /\ ~Truthy(args.s)
    /\ chosen \in Range(subgenre_links)
    /\ call.ok /\ film_titles_of(Parse(call.content)) = <<>>

\* the labels of the anchors the two tiers would return for a page: those of
\* the subcategories container when there are any, otherwise those of the
\* anchors whose text contains the token
TierLabels(page, token) ==
    LET structured == IF page.subcat THEN SelectSeq(page.anchors, LAMBDA a : a.sub) ELSE <<>>
        soup == SelectSeq(page.anchors, LAMBDA a : Contains(Lower(a.text), token))
    IN {a.text : a \in Range(IF structured # <<>> THEN structured ELSE soup)}

\* C15: the genre links and the subgenre links extracted from a page are
\* those of the subcategories container when it yields any, and those of
\* the scan of all anchors only otherwise
C15_FirstNonEmptyTierWins ==
    /\ [][(pc = "genre" /\ pc' # pc /\ call'.ok) =>
            {l.genre : l \in Range(genre_links')}
                = TierLabels(Parse(call'.content), s_films)]_vars
    /\ [][(pc = "film" /\ pc' # pc /\ call'.ok) =>
            {l.subgenre : l \in Range(subgenre_links')}
                = TierLabels(Parse(call'.content), s_film)]_vars

\* C16: no list of genre links and no list of subgenre links that an
\* extraction returned holds two entries with the same label
C16_NoRepeatedLabel ==
    /\ \A i, j \in 1..Len(genre_links) :
          genre_links[i].genre = genre_links[j].genre => i = j
    /\ \A i, j \in 1..Len(subgenre_links) :
          subgenre_links[i].subgenre = subgenre_links[j].subgenre => i = j

\* the options whose lower-cased text contains the lower-cased query
Containing == {i \in 1..Len(options) : Contains(Lower(options[i]), Lower(match_to))}

\* the options whose similarity to the query is at least 0.5
Similar == {i \in 1..Len(options) :
               2 * ratio(options[i], match_to)[1] >= ratio(options[i], match_to)[2]}

\* option i is at least as similar to the query as option k
AsSimilar(i, k) ==
    ratio(options[i], match_to)[1] * ratio(options[k], match_to)[2]
        >= ratio(options[k], match_to)[1] * ratio(options[i], match_to)[2]

\* C17: suggest_closest returns the first option that contains the query,
\* case ignored; without one, an option of highest similarity if that is at
\* least 0.5; else none; and what it returns is one of the options
C17_SuggestClosestTiers ==
    answer # Unasked =>
        /\ Containing # {} => answer = options[Min(Containing)]
        /\ (Containing = {} /\ Similar # {}) =>
              \E i \in Similar : /\ answer = options[i]
                                 /\ \A k \in 1..Len(options) : AsSimilar(i, k)
        /\ (Containing = {} /\ Similar = {}) => answer = None
        /\ answer # None => answer \in Range(options)

\* the query is in none of two options, and the second, more similar one is returned
C17_Witness ==
    /\ answer \notin {Unasked, None}
    /\ Len(options) = 2
    /\ Containing = {}
    /\ answer = options[2]
    /\ ~AsSimilar(1, 2)

\* C18: in a run without country and genre filter, the step of a draw that
\* takes the country has just requested the country page from the cache, and
\* the step that takes the genre has just requested the genre page
C18_ListsRequestedEveryDraw ==
    /\ [][(pc = "loop" /\ pc' = "genre" /\ ~Truthy(args.c) /\ ~Truthy(args.g))
             => call'.category = "country"]_vars
    /\ [][(pc = "genre" /\ pc' # pc /\ ~Truthy(args.c) /\ ~Truthy(args.g))
             => call'.category = "genre"]_vars

\* C19: attempts counts the draws that ended, accepted or abandoned, each
\* once; len(results) <= attempts <= 5 * n and len(results) <= n; and a
\* draw starts only while len(results) < n and attempts < 5 * n
C19_AttemptsCountDraws ==
    /\ [](/\ attempts = Len(accepted) + abandoned
          /\ Len(results) = Len(accepted)
          /\ Len(results) <= attempts
          /\ attempts <= 5 * args.n
          /\ Len(results) <= args.n)
    /\ [][\/ /\ attempts' = attempts
             /\ Len(accepted') = Len(accepted)
             /\ abandoned' = abandoned
          \/ /\ attempts' = attempts + 1
             /\ pc' = "loop"
             /\ \/ Len(accepted') = Len(accepted) + 1 /\ abandoned' = abandoned
                \/ Len(accepted') = Len(accepted) /\ abandoned' = abandoned + 1]_vars
    /\ [][(pc = "loop" /\ pc' \notin {"loop", "done"})
             => (Len(results) < args.n /\ attempts < 5 * args.n)]_vars

\* a run that used its whole budget, with accepted and abandoned draws
C19_Witness ==
    /\ pc = "done"
    /\ attempts = 5 * args.n
    /\ Len(accepted) >= 1
    /\ abandoned >= 1
    /\ Len(results) < args.n

\* C20: a call of get_cached_page whose fetch fails, and a call served from
\* a fresh file, leave every file of the cache as it was, content and
\* mtime; the call served from the file returns the content of the file
C20_FailedOrServedCallKeepsStore ==
    [][(pc \in Fetching /\ pc' # pc /\ (~call'.ok \/ call'.fetches = 0)) =>
          /\ cache' = cache
          /\ call'.fetches = 0 =>
                /\ call'.ok
                /\ call'.existed
                /\ call'.content = cache[<<call'.url, call'.category>>].content]_vars

\* the fetch for an expired file failed, and the file is as it was
C20_Witness ==
    /\ call # NoCall
    /\ ~call.ok
    /\ call.existed
    /\ call.at - call.mtime >= CACHE_EXPIRATION
    /\ cache[<<call.url, call.category>>] = [content |-> call.stored, mtime |-> call.mtime]

=========================================================================
